---- MODULE Spec2Model ----
(***************************************************************************)
(* Model of Working_OneAPICall.py: a Streamlit script that is re-run from  *)
(* top to bottom for every league identifier the user submits.  One run of *)
(* the script is a render pass: fetch_data (memoised by st.cache_data),    *)
(* then the reconciliation of league_entries and standings with pandas,    *)
(* then tables, charts and the points leader.                              *)
(*                                                                         *)
(* A JSON / pandas cell is a record [t, n, s]: t is its native type, n the *)
(* integer it holds, s the string it holds (a sequence of characters).     *)
(* A DataFrame is a record [cols, rows]; the index of a row is its         *)
(* position (pandas' RangeIndex, counted from 1 here).                     *)
(***************************************************************************)
EXTENDS Integers, Sequences, FiniteSets, TLC

(***************************************************************************)
(* Bounds of the explored inputs.                                          *)
(***************************************************************************)
MaxEntries == 2
MaxStandings == 2
MaxTopRows == 11

\* nlargest(10, 'total')
TopN == 10

---------------------------------------------------------------------------
(* Cells *)

IntV(k) == [t |-> "int", n |-> k, s |-> <<>>]
StrV(str) == [t |-> "str", n |-> 0, s |-> str]
NoneV == [t |-> "null", n |-> 0, s |-> <<>>]
\* pandas' NaN: the cell of a row whose dict lacks the column's key, the
\* result of a failed to_numeric coercion, the right side of an unmatched
\* left-join row.
NaN == [t |-> "nan", n |-> 0, s |-> <<>>]
\* In a JSON object: the key is not there at all.
Absent == [t |-> "absent", n |-> 0, s |-> <<>>]

Digits == <<"0", "1", "2", "3", "4", "5", "6", "7", "8", "9">>

DigitChar(d) == Digits[d + 1]

IsDigit(c) == \E d \in 0..9 : DigitChar(d) = c

DigitVal(c) == CHOOSE d \in 0..9 : DigitChar(d) = c

\* Python's str() of a non-negative int
RECURSIVE PyStr(_)
PyStr(k) == IF k < 10 THEN <<DigitChar(k)>>
            ELSE PyStr(k \div 10) \o <<DigitChar(k % 10)>>

\* Series.astype(str), cell by cell
AsTypeStr(v) ==
    CASE v.t = "int" -> StrV(PyStr(v.n))
      [] v.t = "str" -> v
      [] v.t = "null" -> StrV(<<"N", "o", "n", "e">>)
      [] OTHER -> StrV(<<"n", "a", "n">>)

RECURSIVE ParseNat(_)
ParseNat(str) == IF str = <<>> THEN 0
                 ELSE 10 * ParseNat(SubSeq(str, 1, Len(str) - 1))
                      + DigitVal(str[Len(str)])

IsNumeral(str) == str # <<>> /\ \A i \in 1..Len(str) : IsDigit(str[i])

\* pd.to_numeric(..., errors='coerce'), cell by cell
ToNumeric(v) ==
    CASE v.t = "int" -> v
      [] v.t = "str" -> IF IsNumeral(v.s) THEN IntV(ParseNat(v.s)) ELSE NaN
      [] OTHER -> NaN

\* Series.fillna(k), cell by cell
FillNa(v, k) == IF v.t \in {"nan", "null"} THEN IntV(k) ELSE v

---------------------------------------------------------------------------
(* DataFrames *)

EmptyFrame == [cols |-> {}, rows |-> <<>>]

\* pd.DataFrame(list of dicts): the columns are the keys some dict has, a
\* dict without a column's key gets NaN there; an empty list gives a frame
\* with no columns.
DataFrame(list, keys) ==
    [cols |-> {k \in keys : \E i \in 1..Len(list) : list[i][k] # Absent},
     rows |-> [i \in 1..Len(list) |->
                 [k \in keys |-> IF list[i][k] = Absent THEN NaN
                                 ELSE list[i][k]]]]

EntryKeys == {"id", "entry_name", "joined_time", "player_first_name",
              "player_last_name"}
StandingKeys == {"league_entry", "total"}

\* Mutant: the key column is left in its native type.
WithColumnAsIs(df, col) == df

\* df[col] = df[col].astype(str)
WithColumnAsStr(df, col) ==
    [df EXCEPT !.rows = [i \in 1..Len(df.rows) |->
        [df.rows[i] EXCEPT ![col] = AsTypeStr(df.rows[i][col])]]]

\* set(df[col].unique())
ColumnSet(df, col) == {df.rows[i][col] : i \in 1..Len(df.rows)}

\* Mutant: the boolean mask is dropped, every row is kept.
RowsUnfiltered(df, col, ids) == df

\* df[df[col].isin(ids)]
RowsIsIn(df, col, ids) ==
    [df EXCEPT !.rows = SelectSeq(df.rows, LAMBDA r : r[col] \in ids)]

\* line 61
ValidStandings(df, eids) == RowsIsIn(df, "league_entry", eids)

\* Mutant: the entries are filtered by their own identifiers.
ValidEntriesByOwnIds(df, sids) == RowsIsIn(df, "id", ColumnSet(df, "id"))

\* line 62
ValidEntries(df, sids) == RowsIsIn(df, "id", sids)

\* One left row joined with one right row / with no right row.
JoinRow(l, r) ==
    [league_entry |-> l.league_entry, total |-> l.total, id |-> r.id,
     entry_name |-> r.entry_name, joined_time |-> r.joined_time,
     player_first_name |-> r.player_first_name,
     player_last_name |-> r.player_last_name]

NoMatch == [k \in EntryKeys |-> NaN]

RECURSIVE LeftJoinRows(_, _)
LeftJoinRows(left, right) ==
    IF left = <<>> THEN <<>>
    ELSE LET l == Head(left)
             m == SelectSeq(right, LAMBDA r : r.id = l.league_entry)
         IN (IF m = <<>> THEN <<JoinRow(l, NoMatch)>>
             ELSE [j \in 1..Len(m) |-> JoinRow(l, m[j])])
            \o LeftJoinRows(Tail(left), right)

\* left.merge(right[EntryKeys], left_on='league_entry', right_on='id',
\*            how='left')
Merge(left, right) ==
    [cols |-> left.cols \cup EntryKeys,
     rows |-> LeftJoinRows(left.rows, right.rows)]

\* df['total'] = pd.to_numeric(df['total'], errors='coerce').fillna(0)
WithTotalNumeric(df) ==
    [df EXCEPT !.rows = [i \in 1..Len(df.rows) |->
        [df.rows[i] EXCEPT !.total = FillNa(ToNumeric(df.rows[i].total), 0)]]]

\* df['total'].max() of a numeric column without NaN: a scan that keeps
\* the largest value seen.
RECURSIVE MaxScan(_, _, _)
MaxScan(rows, i, m) ==
    IF i > Len(rows) THEN m
    ELSE MaxScan(rows, i + 1, IF rows[i].total.n > m THEN rows[i].total.n ELSE m)

MaxTotal(rows) == MaxScan(rows, 2, rows[1].total.n)

\* df['total'].idxmax(): argmax, a scan that replaces the label kept only
\* by a strictly larger value.
RECURSIVE ArgMaxScan(_, _, _)
ArgMaxScan(rows, i, best) ==
    IF i > Len(rows) THEN best
    ELSE ArgMaxScan(rows, i + 1,
                    IF rows[i].total.n > rows[best].total.n THEN i ELSE best)

\* Mutant: the scan keeps the last row holding the maximum.
RECURSIVE ArgMaxLastScan(_, _, _)
ArgMaxLastScan(rows, i, best) ==
    IF i > Len(rows) THEN best
    ELSE ArgMaxLastScan(rows, i + 1,
                        IF rows[i].total.n >= rows[best].total.n THEN i ELSE best)

IdxMaxLast(rows) == ArgMaxLastScan(rows, 2, 1)

IdxMax(rows) == ArgMaxScan(rows, 2, 1)

\* One step of a stable descending sort of labels by total: label i goes
\* behind every label already placed whose total is not smaller.
RECURSIVE InsertDesc(_, _, _)
InsertDesc(sorted, i, rows) ==
    IF sorted = <<>> THEN <<i>>
    ELSE IF rows[Head(sorted)].total.n >= rows[i].total.n
         THEN <<Head(sorted)>> \o InsertDesc(Tail(sorted), i, rows)
         ELSE <<i>> \o sorted

RECURSIVE SortDesc(_, _)
SortDesc(rows, upto) ==
    IF upto = 0 THEN <<>>
    ELSE InsertDesc(SortDesc(rows, upto - 1), upto, rows)

\* Mutant: head(k) in place of nlargest(k, 'total').
FirstRows(k, rows) == [i \in 1..(IF Len(rows) < k THEN Len(rows) ELSE k) |-> i]

\* The labels of df.nlargest(k, 'total') (keep='first'), in the order of
\* the returned frame: the largest first, equal totals in frame order.
NLargest(k, rows) ==
    LET sorted == SortDesc(rows, Len(rows))
    IN SubSeq(sorted, 1, IF Len(rows) < k THEN Len(rows) ELSE k)

---------------------------------------------------------------------------
(* The remote API's answers *)

\* response.json() / the value fetch_data returns
None == [kind |-> "none", league_entries |-> <<>>, standings |-> <<>>]
EmptyObject == [kind |-> "empty", league_entries |-> <<>>, standings |-> <<>>]
Doc(entries, standings) ==
    [kind |-> "doc", league_entries |-> entries, standings |-> standings]

NoResponse == [status |-> 0, body |-> None]

LeagueIds == {"148968", "77"}

Letters == <<"A", "B", "C", "D">>

\* A league entry: its identity fields are told apart by the position i
\* the entry has in league_entries.
Entry(i, id) ==
    [id |-> id,
     entry_name |-> StrV(<<Letters[i]>>),
     joined_time |-> StrV(<<"t", Letters[i]>>),
     player_first_name |-> StrV(<<"f", Letters[i]>>),
     player_last_name |-> StrV(<<"l", Letters[i]>>)]

Standing(id, total) == [league_entry |-> id, total |-> total]

SeqsUpTo(S, k) == UNION {[1..m -> S] : m \in 0..k}

\* The same logical identifier in the two native encodings of JSON.
IdValues == {IntV(1), IntV(2), IntV(3),
             StrV(<<"1">>), StrV(<<"2">>), StrV(<<"3">>)}

\* An entry is uniquely identified by its id.
UniqueIds(ids) ==
    \A i, j \in 1..Len(ids) : AsTypeStr(ids[i]) = AsTypeStr(ids[j]) => i = j

EntryLists ==
    {[i \in 1..Len(ids) |-> Entry(i, ids[i])] :
        ids \in {x \in SeqsUpTo(IdValues, MaxEntries) : UniqueIds(x)}}

PositionTotal(i) ==
    IF i = 1 THEN StrV(<<"5", "0">>)
    ELSE IF i = 2 THEN StrV(<<"3", "0">>) ELSE IntV(i)

\* Any identifiers on both sides, the totals fixed.
IdDocs ==
    {Doc(e, [i \in 1..Len(ids) |-> Standing(ids[i], PositionTotal(i))]) :
        e \in EntryLists, ids \in SeqsUpTo(IdValues, MaxStandings)}

TotalValues == {IntV(0), IntV(50), StrV(<<"4", "2">>),
                StrV(<<"a", "b", "c">>), NoneV, Absent}

TwoEntries == <<Entry(1, IntV(1)), Entry(2, StrV(<<"2">>))>>

\* Any totals, the identifiers those of the two entries.
TotalDocs ==
    {Doc(TwoEntries, s) :
        s \in SeqsUpTo({Standing(id, tot) :
                           id \in {StrV(<<"1">>), IntV(2)}, tot \in TotalValues},
                       MaxStandings)}

\* Long tables: more rows than the top-scorers chart takes.
TopDocs ==
    {Doc(<<Entry(1, IntV(1))>>, s) :
        s \in SeqsUpTo({Standing(StrV(<<"1">>), IntV(1)),
                        Standing(StrV(<<"1">>), IntV(2))}, MaxTopRows)}

\* Section 8, scenario 6 of the specification
ScenarioDoc ==
    Doc(<<Entry(1, StrV(<<"1">>)), Entry(2, StrV(<<"2">>))>>,
        <<Standing(StrV(<<"1">>), StrV(<<"5", "0">>)),
          Standing(StrV(<<"3">>), StrV(<<"3", "0">>))>>)

FailureStatuses == {404, 500}

Failures ==
    {[status |-> st, body |-> b] :
        st \in FailureStatuses, b \in {EmptyObject, ScenarioDoc}}

Responses ==
    {[status |-> 200, body |-> b] :
        b \in {EmptyObject} \cup IdDocs \cup TotalDocs \cup TopDocs}
    \cup Failures

SessionResponses ==
    {[status |-> 200, body |-> b] :
        b \in {EmptyObject, ScenarioDoc,
               Doc(TwoEntries, <<>>),
               Doc(TwoEntries, <<Standing(IntV(3), IntV(50))>>),
               Doc(TwoEntries, <<Standing(IntV(1), Absent)>>),
               Doc(TwoEntries, <<Standing(IntV(1), IntV(0))>>)}}
    \cup Failures

---------------------------------------------------------------------------
(* State *)

VARIABLES
    league_id,              \* the text input's value
    cache,                  \* st.cache_data's store for fetch_data
    response,               \* the HTTP response of this pass, if one was got
    data,
    pc,                     \* where the pass stands in the script
    ui,                     \* the elements this pass has put on the page
    league_entries_df, standings_df,
    standings_ids, entries_ids,
    missing_in_entries, missing_in_standings,
    valid_standings_df, valid_entries_df,
    merged_df,
    shown_df,               \* merged_df as st.write showed it (line 82)
    top_scorers,            \* the labels of merged_df.nlargest(10, 'total')
    top_scorer              \* the label idxmax gave, in a sequence

frames == <<league_entries_df, standings_df, standings_ids, entries_ids,
            missing_in_entries, missing_in_standings, valid_standings_df,
            valid_entries_df, merged_df, shown_df, top_scorers, top_scorer>>

vars == <<league_id, cache, response, data, pc, ui, frames>>

NotCached == [cached |-> FALSE, value |-> None]

FramesUnset ==
    /\ league_entries_df = EmptyFrame
    /\ standings_df = EmptyFrame
    /\ standings_ids = {}
    /\ entries_ids = {}
    /\ missing_in_entries = {}
    /\ missing_in_standings = {}
    /\ valid_standings_df = EmptyFrame
    /\ valid_entries_df = EmptyFrame
    /\ merged_df = EmptyFrame
    /\ shown_df = EmptyFrame
    /\ top_scorers = <<>>
    /\ top_scorer = <<>>

\* The first run of the script: the text input holds its default value.
Init ==
    /\ league_id = "148968"
    /\ cache = [l \in LeagueIds |-> NotCached]
    /\ response = NoResponse
    /\ data = None
    /\ pc = "fetch"
    /\ ui = <<"title">>
    /\ FramesUnset

---------------------------------------------------------------------------
(* fetch_data *)

\* Mutant: the status check is lost, the body is returned whatever it is.
FetchResultAnyStatus(resp) == resp.body

\* The body of fetch_data, given the response of requests.get
FetchResult(resp) == IF resp.status = 200 THEN resp.body ELSE None

\* The elements the body of fetch_data puts on the page
FetchElements(resp) == IF resp.status = 200 THEN <<>> ELSE <<"error:fetch">>

\* if data:
Truthy(d) == d.kind = "doc"

\* st.cache_data has no value for league_id: the function body runs, and
\* its value is stored, whatever it is.
FetchMiss(answers) ==
    /\ pc = "fetch"
    /\ ~cache[league_id].cached
    /\ \E resp \in answers :
        /\ response' = resp
        /\ data' = FetchResult(resp)
        /\ ui' = ui \o FetchElements(resp)
        /\ cache' = [cache EXCEPT ![league_id] =
                        [cached |-> TRUE, value |-> FetchResult(resp)]]
    /\ pc' = "branch"
    /\ UNCHANGED <<league_id, frames>>

\* st.cache_data has a value for league_id: it is returned, the body does
\* not run and no request is made; the elements the body showed when the
\* value was computed are shown again.
FetchHit ==
    /\ pc = "fetch"
    /\ cache[league_id].cached
    /\ response' = NoResponse
    /\ data' = cache[league_id].value
    /\ ui' = ui \o (IF cache[league_id].value = None
                    THEN <<"error:fetch">> ELSE <<>>)
    /\ pc' = "branch"
    /\ UNCHANGED <<league_id, cache, frames>>

---------------------------------------------------------------------------
(* The script below fetch_data *)

\* lines 175-176
ElseBranch ==
    /\ pc = "branch"
    /\ ~Truthy(data)
    /\ ui' = Append(ui, "write:enter_valid_id")
    /\ pc' = "done"
    /\ UNCHANGED <<league_id, cache, response, data, frames>>

\* lines 26-42
BuildFrames ==
    /\ pc = "branch"
    /\ Truthy(data)
    /\ league_entries_df' = DataFrame(data.league_entries, EntryKeys)
    /\ standings_df' = DataFrame(data.standings, StandingKeys)
    /\ ui' = ui \o <<"subheader:league", "write:raw_entries", "write:raw_standings">>
    /\ pc' = "normalize"
    /\ UNCHANGED <<league_id, cache, response, data, standings_ids,
                   entries_ids, missing_in_entries, missing_in_standings,
                   valid_standings_df, valid_entries_df, merged_df, shown_df,
                   top_scorers, top_scorer>>

\* lines 44-46; df[col] raises KeyError when the frame has no such column,
\* and the exception ends the pass.
NormalizeKeys ==
    /\ pc = "normalize"
    /\ IF "league_entry" \notin standings_df.cols
       THEN /\ pc' = "crashed"
            /\ ui' = Append(ui, "exception:KeyError")
            /\ UNCHANGED <<standings_df, league_entries_df>>
       ELSE IF "id" \notin league_entries_df.cols
       THEN /\ standings_df' = WithColumnAsStr(standings_df, "league_entry")
            /\ pc' = "crashed"
            /\ ui' = Append(ui, "exception:KeyError")
            /\ UNCHANGED league_entries_df
       ELSE /\ standings_df' = WithColumnAsStr(standings_df, "league_entry")
            /\ league_entries_df' = WithColumnAsStr(league_entries_df, "id")
            /\ pc' = "compare"
            /\ UNCHANGED ui
    /\ UNCHANGED <<league_id, cache, response, data, standings_ids,
                   entries_ids, missing_in_entries, missing_in_standings,
                   valid_standings_df, valid_entries_df, merged_df, shown_df,
                   top_scorers, top_scorer>>

\* lines 48-58
CompareIds ==
    /\ pc = "compare"
    /\ LET sids == ColumnSet(standings_df, "league_entry")
           eids == ColumnSet(league_entries_df, "id")
       IN /\ standings_ids' = sids
          /\ entries_ids' = eids
          /\ missing_in_entries' = sids \ eids
          /\ missing_in_standings' = eids \ sids
          /\ ui' = ui
                   \o (IF sids \ eids # {}
                       THEN <<"warning:missing_in_entries">> ELSE <<>>)
                   \o (IF eids \ sids # {}
                       THEN <<"warning:missing_in_standings">> ELSE <<>>)
    /\ pc' = "filter"
    /\ UNCHANGED <<league_id, cache, response, data, league_entries_df,
                   standings_df, valid_standings_df, valid_entries_df,
                   merged_df, shown_df, top_scorers, top_scorer>>

\* lines 60-68
Filter ==
    /\ pc = "filter"
    /\ LET vs == ValidStandings(standings_df, entries_ids)
           ve == ValidEntries(league_entries_df, standings_ids)
       IN /\ valid_standings_df' = vs
          /\ valid_entries_df' = ve
          /\ ui' = ui
                   \o (IF vs.rows = <<>>
                       THEN <<"error:no_valid_standings">> ELSE <<>>)
                   \o (IF ve.rows = <<>>
                       THEN <<"error:no_valid_entries">> ELSE <<>>)
    /\ pc' = "merge"
    /\ UNCHANGED <<league_id, cache, response, data, league_entries_df,
                   standings_df, standings_ids, entries_ids,
                   missing_in_entries, missing_in_standings, merged_df,
                   shown_df, top_scorers, top_scorer>>

\* lines 70-82
MergeValid ==
    /\ pc = "merge"
    /\ IF valid_standings_df.rows # <<>> /\ valid_entries_df.rows # <<>>
       THEN LET m == Merge(valid_standings_df, valid_entries_df)
            IN /\ merged_df' = m
               /\ IF m.rows = <<>>
                  THEN /\ ui' = Append(ui, "error:merged_empty")
                       /\ pc' = "done"
                       /\ UNCHANGED shown_df
                  ELSE /\ ui' = Append(ui, "write:merged")
                       /\ shown_df' = m
                       /\ pc' = "total"
       ELSE /\ pc' = "done"
            /\ UNCHANGED <<merged_df, shown_df, ui>>
    /\ UNCHANGED <<league_id, cache, response, data, league_entries_df,
                   standings_df, standings_ids, entries_ids,
                   missing_in_entries, missing_in_standings,
                   valid_standings_df, valid_entries_df, top_scorers,
                   top_scorer>>

\* lines 84-85
NormalizeTotal ==
    /\ pc = "total"
    /\ IF "total" \notin merged_df.cols
       THEN /\ pc' = "crashed"
            /\ ui' = Append(ui, "exception:KeyError")
            /\ UNCHANGED merged_df
       ELSE /\ merged_df' = WithTotalNumeric(merged_df)
            /\ pc' = "charts"
            /\ UNCHANGED ui
    /\ UNCHANGED <<league_id, cache, response, data, league_entries_df,
                   standings_df, standings_ids, entries_ids,
                   missing_in_entries, missing_in_standings,
                   valid_standings_df, valid_entries_df, shown_df,
                   top_scorers, top_scorer>>

\* lines 87-165
Charts ==
    /\ pc = "charts"
    /\ top_scorers' = NLargest(TopN, merged_df.rows)
    /\ ui' = ui \o <<"dataframe:standings", "chart:total", "chart:histogram",
                     "chart:top10", "chart:wins", "chart:losses",
                     "chart:draws">>
    /\ pc' = "leader"
    /\ UNCHANGED <<league_id, cache, response, data, league_entries_df,
                   standings_df, standings_ids, entries_ids,
                   missing_in_entries, missing_in_standings,
                   valid_standings_df, valid_entries_df, merged_df, shown_df,
                   top_scorer>>

\* lines 167-174
Leader ==
    /\ pc = "leader"
    /\ IF merged_df.rows # <<>> /\ MaxTotal(merged_df.rows) > 0
       THEN /\ top_scorer' = <<IdxMax(merged_df.rows)>>
            /\ ui' = ui \o <<"write:points_leader", "metric:top_scorer",
                             "write:player">>
       ELSE /\ ui' = Append(ui, "write:no_top_scorer")
            /\ UNCHANGED top_scorer
    /\ pc' = "done"
    /\ UNCHANGED <<league_id, cache, response, data, league_entries_df,
                   standings_df, standings_ids, entries_ids,
                   missing_in_entries, missing_in_standings,
                   valid_standings_df, valid_entries_df, merged_df, shown_df,
                   top_scorers>>

\* The user submits an identifier: Streamlit runs the script again from
\* the top; only st.cache_data's store outlives a pass.
Rerun ==
    /\ pc \in {"done", "crashed"}
    /\ \E id \in LeagueIds : league_id' = id
    /\ response' = NoResponse
    /\ data' = None
    /\ pc' = "fetch"
    /\ ui' = <<"title">>
    /\ league_entries_df' = EmptyFrame
    /\ standings_df' = EmptyFrame
    /\ standings_ids' = {}
    /\ entries_ids' = {}
    /\ missing_in_entries' = {}
    /\ missing_in_standings' = {}
    /\ valid_standings_df' = EmptyFrame
    /\ valid_entries_df' = EmptyFrame
    /\ merged_df' = EmptyFrame
    /\ shown_df' = EmptyFrame
    /\ top_scorers' = <<>>
    /\ top_scorer' = <<>>
    /\ UNCHANGED cache

\* One pass: the first run of the script, on answers of any shape.
Next ==
    \/ FetchMiss(Responses)
    \/ ElseBranch
    \/ BuildFrames
    \/ NormalizeKeys
    \/ CompareIds
    \/ Filter
    \/ MergeValid
    \/ NormalizeTotal
    \/ Charts
    \/ Leader

Spec == Init /\ [][Next]_vars

\* A session: pass after pass against the memoised fetch_data.
NextSession ==
    \/ Rerun
    \/ FetchMiss(SessionResponses)
    \/ FetchHit
    \/ ElseBranch
    \/ BuildFrames
    \/ NormalizeKeys
    \/ CompareIds
    \/ Filter
    \/ MergeValid
    \/ NormalizeTotal
    \/ Charts
    \/ Leader

SpecSession == Init /\ [][NextSession]_vars

---------------------------------------------------------------------------
(* What the claims speak of *)

Shown(tag) == \E i \in 1..Len(ui) : ui[i] = tag

PassEnded == pc \in {"done", "crashed"}

\* The identifier set of one side of the answer, after string coercion
CoercedIds(list, key) == {AsTypeStr(list[i][key]) : i \in 1..Len(list)}

StandingIds == CoercedIds(data.standings, "league_entry")
EntryIds == CoercedIds(data.league_entries, "id")

\* The pass has executed the filtering step / the merge.
PastFilter ==
    /\ Truthy(data)
    /\ \/ pc \in {"merge", "total", "charts", "leader", "done"}
       \/ pc = "crashed" /\ shown_df # EmptyFrame

Joined ==
    /\ Truthy(data)
    /\ pc \in {"total", "charts", "leader", "done", "crashed"}
    /\ shown_df # EmptyFrame

ReconciliationTags ==
    {"subheader:league", "write:raw_entries", "write:raw_standings",
     "warning:missing_in_entries", "warning:missing_in_standings",
     "error:no_valid_standings", "error:no_valid_entries",
     "error:merged_empty", "write:merged", "dataframe:standings",
     "chart:total", "chart:histogram", "chart:top10", "chart:wins",
     "chart:losses", "chart:draws", "write:points_leader",
     "metric:top_scorer", "write:player", "write:no_top_scorer",
     "exception:KeyError"}

DerivedTags ==
    {"dataframe:standings", "chart:total", "chart:histogram", "chart:top10",
     "chart:wins", "chart:losses", "chart:draws", "write:points_leader",
     "metric:top_scorer", "write:player", "write:no_top_scorer"}

---------------------------------------------------------------------------
\* C1: in a pass whose HTTP response has a status other than 200,
\* fetch_data returns no data and shows its error, no step of the
\* reconciliation runs (the frames stay unset, the pass stands before or
\* after the else branch, nothing of the reconciliation is on the page),
\* and the pass ends with the 'Enter a valid League ID' message only.
C1_FetchFailure ==
    (response # NoResponse /\ response.status # 200) =>
        /\ data = None
        /\ Shown("error:fetch")
        /\ pc \in {"branch", "done"}
        /\ FramesUnset
        /\ \A i \in 1..Len(ui) : ui[i] \notin ReconciliationTags
        /\ pc = "done" => ui = <<"title", "error:fetch", "write:enter_valid_id">>

C1_Witness ==
    /\ response.status = 404
    /\ response.body = ScenarioDoc
    /\ pc = "done"
    /\ cache["77"].cached

\* C2 (as stated): for any entries and standings of a fetched document,
\* the identifiers the pass reports as missing are the symmetric
\* difference of the two string-coerced identifier sets, with a warning on
\* a side exactly when its difference is not empty.
C2_Original ==
    (PassEnded /\ Truthy(data)) =>
        /\ missing_in_entries = StandingIds \ EntryIds
        /\ missing_in_standings = EntryIds \ StandingIds
        /\ Shown("warning:missing_in_entries") <=> StandingIds \ EntryIds # {}
        /\ Shown("warning:missing_in_standings") <=> EntryIds \ StandingIds # {}

\* C2, where the comparison step is reached (neither list is empty): the
\* report is the symmetric difference, and the pass goes on to the filter
\* whether or not it warned.
C2_WhenCompared ==
    (Truthy(data) /\ pc \in {"filter", "merge", "total", "charts", "leader"}) =>
        /\ missing_in_entries \cup missing_in_standings
             = (StandingIds \ EntryIds) \cup (EntryIds \ StandingIds)
        /\ Shown("warning:missing_in_entries") <=> StandingIds \ EntryIds # {}
        /\ Shown("warning:missing_in_standings") <=> EntryIds \ StandingIds # {}

\* C3: after the filtering step the identifiers of the retained standings
\* and of the retained entries are both the intersection of the two
\* original identifier sets; no row of the joined table lacks its entry
\* (entry_name, player_first_name, player_last_name are not NaN); and for
\* entries {1, 2} against standings {1, 3} the join is the one row of id 1.
C3_FilteredJoin ==
    /\ PastFilter =>
        /\ ColumnSet(valid_standings_df, "league_entry")
             = StandingIds \cap EntryIds
        /\ ColumnSet(valid_entries_df, "id") = StandingIds \cap EntryIds
    /\ Joined =>
        \A k \in 1..Len(shown_df.rows) :
            /\ shown_df.rows[k].entry_name # NaN
            /\ shown_df.rows[k].player_first_name # NaN
            /\ shown_df.rows[k].player_last_name # NaN
    /\ (data = ScenarioDoc /\ pc = "done") =>
        /\ Len(merged_df.rows) = 1
        /\ merged_df.rows[1].league_entry = StrV(<<"1">>)
        /\ merged_df.rows[1].id = StrV(<<"1">>)
        /\ merged_df.rows[1].entry_name = StrV(<<"A">>)
        /\ merged_df.rows[1].total = IntV(50)
        /\ missing_in_entries = {StrV(<<"3">>)}
        /\ missing_in_standings = {StrV(<<"2">>)}

C3_Witness ==
    /\ response.status = 200
    /\ data = ScenarioDoc
    /\ pc = "done"
    /\ Len(shown_df.rows) = 1

\* The standings of the answer as the frame holds them after coercion,
\* restricted to those whose identifier some entry has.
RetainedStandings ==
    SelectSeq([i \in 1..Len(data.standings) |->
                 [league_entry |-> AsTypeStr(data.standings[i].league_entry),
                  total |-> IF data.standings[i].total = Absent THEN NaN
                            ELSE data.standings[i].total]],
              LAMBDA r : r.league_entry \in EntryIds)

C5_Original ==
    (PassEnded /\ Truthy(data) /\ data.standings = <<>>) =>
        /\ pc = "done"
        /\ Shown("error:no_valid_standings")
        /\ merged_df = EmptyFrame
        /\ \A i \in 1..Len(ui) : ui[i] \notin DerivedTags

\* C5, its second part: whenever the filtered standings or the filtered
\* entries are empty, an error is shown and nothing derived is computed.
C5_FilteredEmpty ==
    (PastFilter /\ pc # "merge"
     /\ (valid_standings_df.rows = <<>> \/ valid_entries_df.rows = <<>>)) =>
        /\ Shown("error:no_valid_standings") \/ Shown("error:no_valid_entries")
        /\ pc = "done"
        /\ merged_df = EmptyFrame /\ top_scorers = <<>> /\ top_scorer = <<>>
        /\ \A i \in 1..Len(ui) : ui[i] \notin DerivedTags

\* What C6 says a total of the joined table becomes
ExpectedTotal(v) ==
    IF v.t = "int" THEN v
    ELSE IF v.t = "str" /\ IsNumeral(v.s) THEN IntV(ParseNat(v.s))
    ELSE IntV(0)

\* C6 (as stated): for every row of a joined table, by the end of the pass
\* the total is a number: the number it parses as, or 0 when it does not
\* parse, is null or is missing; the other columns and the number of rows
\* are as the merge left them.
C6_Original ==
    (PassEnded /\ Joined) =>
        /\ Len(merged_df.rows) = Len(shown_df.rows)
        /\ \A k \in 1..Len(shown_df.rows) :
            /\ merged_df.rows[k].total.t = "int"
            /\ merged_df.rows[k].total = ExpectedTotal(shown_df.rows[k].total)
            /\ \A c \in EntryKeys \cup {"league_entry"} :
                 merged_df.rows[k][c] = shown_df.rows[k][c]

\* C6, where the standings frame has a total column (some standing of the
\* answer carries the key): the same statement, once lines 84-85 have run.
C6_WhenColumnExists ==
    (Joined /\ pc \in {"charts", "leader", "done"}) =>
        /\ Len(merged_df.rows) = Len(shown_df.rows)
        /\ \A k \in 1..Len(shown_df.rows) :
            /\ merged_df.rows[k].total.t = "int"
            /\ merged_df.rows[k].total = ExpectedTotal(shown_df.rows[k].total)
            /\ \A c \in EntryKeys \cup {"league_entry"} :
                 merged_df.rows[k][c] = shown_df.rows[k][c]

\* C7 (as stated): every pass starts with a new fetch, so a pass ends
\* without data only if the request of that very pass failed.
C7_Original ==
    (pc # "fetch" /\ data = None) =>
        /\ response # NoResponse
        /\ response.status # 200

\* C8: once the top-scorers chart is drawn, the subset it charts holds
\* min(10, number of rows) distinct rows of the joined table, and every row
\* in it has a total at least that of every row outside it.
C8_TopTen ==
    Shown("chart:top10") =>
        LET n == Len(merged_df.rows)
            in_top == {top_scorers[i] : i \in 1..Len(top_scorers)}
        IN /\ Len(top_scorers) = IF n < 10 THEN n ELSE 10
           /\ in_top \subseteq 1..n
           /\ Cardinality(in_top) = Len(top_scorers)
           /\ \A i \in in_top, j \in (1..n) \ in_top :
                merged_df.rows[i].total.n >= merged_df.rows[j].total.n

C8_Witness ==
    /\ pc = "done"
    /\ Len(merged_df.rows) = 11
    /\ Len(top_scorers) = 10
    /\ merged_df.rows[1].total.n = 1
    /\ merged_df.rows[11].total.n = 2
    /\ \E j \in 1..11 : j \notin {top_scorers[i] : i \in 1..10}

\* The first label, in frame order, that holds the largest total
FirstOfMax(rows, i) ==
    /\ \A j \in 1..Len(rows) : rows[j].total.n <= rows[i].total.n
    /\ \A j \in 1..(i - 1) : rows[j].total.n < rows[i].total.n

\* C9 (as stated): a pass that ends with a non-empty joined table has
\* selected and displayed a leader: the first row, in order, of maximal
\* total.
C9_Original ==
    (pc = "done" /\ Shown("chart:top10")) =>
        /\ Len(top_scorer) = 1
        /\ FirstOfMax(merged_df.rows, top_scorer[1])
        /\ Shown("metric:top_scorer")

\* C9 (amended): a pass that ends with a non-empty joined table whose
\* largest total is above 0 has selected and displayed one leader, the
\* first row in order of maximal total; when the largest total is 0 or
\* less no leader is selected and 'No valid data available to determine
\* the top scorer.' is written instead.
C9_Leader ==
    (pc = "done" /\ Shown("chart:top10")) =>
        IF \E i \in 1..Len(merged_df.rows) : merged_df.rows[i].total.n > 0
        THEN /\ Len(top_scorer) = 1
             /\ top_scorer[1] \in 1..Len(merged_df.rows)
             /\ FirstOfMax(merged_df.rows, top_scorer[1])
             /\ Shown("metric:top_scorer")
             /\ ~Shown("write:no_top_scorer")
        ELSE /\ top_scorer = <<>>
             /\ ~Shown("metric:top_scorer")
             /\ Shown("write:no_top_scorer")

C9_Witness ==
    /\ pc = "done"
    /\ Len(top_scorer) = 1
    /\ top_scorer[1] = 2
    /\ \E j \in 3..Len(merged_df.rows) :
         merged_df.rows[j].total = merged_df.rows[2].total

\* C10: once the pass has filtered, the filtered standings are empty
\* exactly when the filtered entries are, the two 'No valid ... data'
\* errors are on the page together or not at all, and 'Merged Data is
\* empty' is never shown: a merge that was executed gave a non-empty table.
C10_EmptyTogether ==
    /\ ~Shown("error:merged_empty")
    /\ PastFilter =>
        /\ valid_standings_df.rows = <<>> <=> valid_entries_df.rows = <<>>
        /\ Shown("error:no_valid_standings") <=> Shown("error:no_valid_entries")
        /\ (pc # "merge" /\ valid_standings_df.rows # <<>>
            /\ valid_entries_df.rows # <<>>) => merged_df.rows # <<>>

C10_Witness ==
    /\ pc = "done"
    /\ Truthy(data)
    /\ data.standings # <<>>
    /\ valid_standings_df.rows = <<>>
    /\ Shown("error:no_valid_standings")
    /\ Shown("error:no_valid_entries")

====
